---- MODULE Spec2Model ----
(***************************************************************************)
(* The job-queue / worker-registry schema of server/models.py and the two  *)
(* page views of net/views/home.py.                                        *)
(*                                                                         *)
(* The database is one variable per table.  JobQueue is the bag of the     *)
(* names stored in its rows; the other tables map a row's id to its        *)
(* fields.  A Python string is the sequence of its characters, so that     *)
(* formatting and joining are computed and not assumed.  resp is what the  *)
(* operation that ran last gave back to its caller.                        *)
(***************************************************************************)
EXTENDS Integers, Sequences, FiniteSets, Bags, TLC

VARIABLES JobQueue, QueuedJob, Worker, LoadedIndex, UserImage, resp

tables == <<JobQueue, QueuedJob, Worker, LoadedIndex, UserImage>>
vars == <<JobQueue, QueuedJob, Worker, LoadedIndex, UserImage, resp>>

\* ---------------------------------------------------------------- bounds
MaxJobs == 2
MaxWorkers == 1
MaxIndexes == 1
MaxPrettyWorkers == 2
MaxPrettyIndexes == 3
MaxFieldJobs == 1
MaxFieldWorkers == 1
MaxFieldIndexes == 1
MaxImages == 3

QueueNames == {"astrometry", "test"}
JobIds == {"job-1"}
Hostnames == {"oven", "neuron"}
Ips == {"10.0.0.1", "10.0.0.2"}
\* (indexid, healpix) of the indexes a worker loads.
IndexPairs == {<<1, -1>>, <<2, 5>>, <<12, 0>>, <<-3, -2>>}
Nsides == {1, 2}
Requests == {"GET", "POST"}

\* ---------------------------------------------------------- field values
\* The value of a nullable foreign key that refers to no row.
NULL == 0
priority_default == 0
stopwork_default == FALSE
enqueuetime_default == "2000-01-01"

\* A keyword argument of a constructor, or the field's default.
Field(kw, f, default) == IF f \in DOMAIN kw THEN kw[f] ELSE default

Put(t, k, row) == [x \in DOMAIN t \cup {k} |-> IF x = k THEN row ELSE t[x]]
Drop(t, K) == [x \in DOMAIN t \ K |-> t[x]]

\* ------------------------------------------------------- string helpers
DigitChars == <<"0", "1", "2", "3", "4", "5", "6", "7", "8", "9">>

RECURSIVE FormatNat(_)
FormatNat(n) ==
    IF n < 10 THEN <<DigitChars[n + 1]>>
    ELSE FormatNat(n \div 10) \o <<DigitChars[(n % 10) + 1]>>

\* '%i' % n
FormatInt(n) == IF n < 0 THEN <<"-">> \o FormatNat(-n) ELSE FormatNat(n)

\* Mutant of join: the items run together, as ''.join(items) would give.
join_nosep(sep, items) ==
    LET acc[k \in 0..Len(items)] ==
            IF k = 0 THEN <<>> ELSE acc[k - 1] \o items[k]
    IN acc[Len(items)]

\* sep.join(items)
join(sep, items) ==
    LET acc[k \in 0..Len(items)] ==
            IF k = 0 THEN <<>>
            ELSE IF k = 1 THEN items[1]
            ELSE acc[k - 1] \o sep \o items[k]
    IN acc[Len(items)]

\* c and a or b, on strings: the empty string is false.
and_or(c, a, b) == IF c /\ a # <<>> THEN a ELSE b

\* The members of a set of row ids, in increasing order.
SortedSeq(S) ==
    [k \in 1..Cardinality(S) |->
        CHOOSE x \in S : Cardinality({y \in S : y < x}) = k - 1]

\* ------------------------------------------------------------- relations
\* q.jobs, job.workers and worker.indexes, as the ids of the related rows.
jobs(Q) == {j \in DOMAIN QueuedJob : QueuedJob[j].q \in Q}
workers(J) == {w \in DOMAIN Worker : Worker[w].job \in J}
indexes(W) == {i \in DOMAIN LoadedIndex : LoadedIndex[i].worker \in W}

\* Mutant of indexes_all: the rows of every worker, as
\* LoadedIndex.objects.all() would give.
indexes_all_unfiltered(self) ==
    LET ids == SortedSeq(DOMAIN LoadedIndex)
    IN [k \in 1..Len(ids) |-> LoadedIndex[ids[k]]]

\* self.indexes.all(): the rows of the worker, in the order of the table.
\* A new row takes any free id, so a worker's rows come in every order
\* relative to the order in which they were created.
indexes_all(self) ==
    LET ids == SortedSeq(indexes({self}))
    IN [k \in 1..Len(ids) |-> LoadedIndex[ids[k]]]

\* Mutant of piece: the test is healpix > 0.
piece_gt0(i) ==
    FormatInt(i.indexid)
    \o and_or(i.healpix > 0, <<"-">> \o FormatInt(i.healpix), <<>>)

\* Mutant of piece: healpix_nside is printed for healpix.
piece_nside(i) ==
    FormatInt(i.indexid)
    \o and_or(i.healpix > -1, <<"-">> \o FormatInt(i.healpix_nside), <<>>)

\* '%i'%i.indexid + (i.healpix > -1 and '-%i'%i.healpix or '')
piece(i) ==
    FormatInt(i.indexid)
    \o and_or(i.healpix > -1, <<"-">> \o FormatInt(i.healpix), <<>>)

\* [piece(i) for i in query]: the query is run once.
pieces(query) ==
    CHOOSE list \in {[k \in 1..Len(all) |-> piece(all[k])] : all \in {query}} :
        TRUE

pretty_index_list(self) == join(<<",", " ">>, pieces(indexes_all(self)))

\* ------------------------------------------------------------------ Init
Init ==
    /\ JobQueue = EmptyBag
    /\ QueuedJob = <<>>
    /\ Worker = <<>>
    /\ LoadedIndex = <<>>
    /\ UserImage = {}
    /\ resp = [op |-> "none"]

\* -------------------------------------------------------------- JobQueue
\* Mutant of JobQueue_create: the name is stored though it may be there.
JobQueue_create_any(name) ==
    /\ JobQueue' = JobQueue (+) SetToBag({name})
    /\ resp' = [op |-> "JobQueue.create", name |-> name, error |-> ""]
    /\ UNCHANGED <<QueuedJob, Worker, LoadedIndex, UserImage>>

JobQueue_create(name) ==
    IF BagIn(name, JobQueue)
    THEN /\ resp' = [op |-> "JobQueue.create", name |-> name,
                     error |-> "IntegrityError"]
         /\ UNCHANGED tables
    ELSE /\ JobQueue' = JobQueue (+) SetToBag({name})
         /\ resp' = [op |-> "JobQueue.create", name |-> name, error |-> ""]
         /\ UNCHANGED <<QueuedJob, Worker, LoadedIndex, UserImage>>

\* Mutant of JobQueue_delete: the queue's jobs are left behind.
JobQueue_delete_alone(name) ==
    /\ BagIn(name, JobQueue)
    /\ JobQueue' = JobQueue (-) SetToBag({name})
    /\ resp' = [op |-> "JobQueue.delete"]
    /\ UNCHANGED <<QueuedJob, Worker, LoadedIndex, UserImage>>

JobQueue_delete(name) ==
    /\ BagIn(name, JobQueue)
    /\ LET J == jobs({name})
           W == workers(J)
       IN /\ JobQueue' = JobQueue (-) SetToBag({name})
          /\ QueuedJob' = Drop(QueuedJob, J)
          /\ Worker' = Drop(Worker, W)
          /\ LoadedIndex' = Drop(LoadedIndex, indexes(W))
    /\ resp' = [op |-> "JobQueue.delete"]
    /\ UNCHANGED UserImage

\* ------------------------------------------------------------- QueuedJob
\* Mutant of QueuedJob_row: stopwork defaults to True.
QueuedJob_row_stop(kw) ==
    [q |-> kw.q,
     priority |-> Field(kw, "priority", priority_default),
     jobid |-> kw.jobid,
     stopwork |-> Field(kw, "stopwork", TRUE),
     enqueuetime |-> Field(kw, "enqueuetime", enqueuetime_default)]

QueuedJob_row(kw) ==
    [q |-> kw.q,
     priority |-> Field(kw, "priority", priority_default),
     jobid |-> kw.jobid,
     stopwork |-> Field(kw, "stopwork", stopwork_default),
     enqueuetime |-> Field(kw, "enqueuetime", enqueuetime_default)]

\* q is a required foreign key: it names a row of JobQueue.
QueuedJob_q_ok(kw) == "q" \in DOMAIN kw /\ BagIn(kw.q, JobQueue)

QueuedJob_create(id, kw) ==
    /\ id \notin DOMAIN QueuedJob
    /\ IF QueuedJob_q_ok(kw)
       THEN /\ QueuedJob' = Put(QueuedJob, id, QueuedJob_row(kw))
            /\ resp' = [op |-> "QueuedJob.create", id |-> id,
                        given |-> DOMAIN kw, error |-> ""]
       ELSE /\ resp' = [op |-> "QueuedJob.create", id |-> id,
                        given |-> DOMAIN kw, error |-> "IntegrityError"]
            /\ UNCHANGED QueuedJob
    /\ UNCHANGED <<JobQueue, Worker, LoadedIndex, UserImage>>

QueuedJob_delete(id) ==
    /\ id \in DOMAIN QueuedJob
    /\ LET W == workers({id})
       IN /\ QueuedJob' = Drop(QueuedJob, {id})
          /\ Worker' = Drop(Worker, W)
          /\ LoadedIndex' = Drop(LoadedIndex, indexes(W))
    /\ resp' = [op |-> "QueuedJob.delete"]
    /\ UNCHANGED <<JobQueue, UserImage>>

\* ---------------------------------------------------------------- Worker
Worker_row(kw) ==
    [hostname |-> kw.hostname, ip |-> kw.ip, job |-> Field(kw, "job", NULL)]

\* job is an optional foreign key: null, or a row of QueuedJob.
Worker_job_ok(kw) ==
    LET job == Field(kw, "job", NULL)
    IN job = NULL \/ job \in DOMAIN QueuedJob

Worker_create(id, kw) ==
    /\ id \notin DOMAIN Worker
    /\ IF Worker_job_ok(kw)
       THEN /\ Worker' = Put(Worker, id, Worker_row(kw))
            /\ resp' = [op |-> "Worker.create", id |-> id,
                        given |-> DOMAIN kw, error |-> ""]
       ELSE /\ resp' = [op |-> "Worker.create", id |-> id,
                        given |-> DOMAIN kw, error |-> "IntegrityError"]
            /\ UNCHANGED Worker
    /\ UNCHANGED <<JobQueue, QueuedJob, LoadedIndex, UserImage>>

\* worker = Worker.objects.get(id=id); the fields of kw are assigned;
\* worker.save()
Worker_save(id, kw) ==
    /\ id \in DOMAIN Worker
    /\ IF Worker_job_ok(kw)
       THEN /\ Worker' = Put(Worker, id,
                    [hostname |-> Field(kw, "hostname", Worker[id].hostname),
                     ip |-> Field(kw, "ip", Worker[id].ip),
                     job |-> Field(kw, "job", Worker[id].job)])
            /\ resp' = [op |-> "Worker.save", error |-> ""]
       ELSE /\ resp' = [op |-> "Worker.save", error |-> "IntegrityError"]
            /\ UNCHANGED Worker
    /\ UNCHANGED <<JobQueue, QueuedJob, LoadedIndex, UserImage>>

Worker_delete(id) ==
    /\ id \in DOMAIN Worker
    /\ Worker' = Drop(Worker, {id})
    /\ LoadedIndex' = Drop(LoadedIndex, indexes({id}))
    /\ resp' = [op |-> "Worker.delete"]
    /\ UNCHANGED <<JobQueue, QueuedJob, UserImage>>

\* ----------------------------------------------------------- LoadedIndex
LoadedIndex_row(kw) ==
    [indexid |-> kw.indexid, healpix |-> kw.healpix,
     healpix_nside |-> kw.healpix_nside, worker |-> kw.worker]

\* worker is a required foreign key: it names a row of Worker.
LoadedIndex_worker_ok(kw) == "worker" \in DOMAIN kw /\ kw.worker \in DOMAIN Worker

LoadedIndex_create(id, kw) ==
    /\ id \notin DOMAIN LoadedIndex
    /\ IF LoadedIndex_worker_ok(kw)
       THEN /\ LoadedIndex' = Put(LoadedIndex, id, LoadedIndex_row(kw))
            /\ resp' = [op |-> "LoadedIndex.create", id |-> id, error |-> ""]
       ELSE /\ resp' = [op |-> "LoadedIndex.create", id |-> id,
                        error |-> "IntegrityError"]
            /\ UNCHANGED LoadedIndex
    /\ UNCHANGED <<JobQueue, QueuedJob, Worker, UserImage>>

\* index.healpix_nside = nside; index.save()
LoadedIndex_save(id, nside) ==
    /\ id \in DOMAIN LoadedIndex
    /\ LoadedIndex' = [LoadedIndex EXCEPT ![id].healpix_nside = nside]
    /\ resp' = [op |-> "LoadedIndex.save", error |-> ""]
    /\ UNCHANGED <<JobQueue, QueuedJob, Worker, UserImage>>

LoadedIndex_delete(id) ==
    /\ id \in DOMAIN LoadedIndex
    /\ LoadedIndex' = Drop(LoadedIndex, {id})
    /\ resp' = [op |-> "LoadedIndex.delete"]
    /\ UNCHANGED <<JobQueue, QueuedJob, Worker, UserImage>>

\* Worker.pretty_index_list(), called on the row of worker self.
Worker_pretty_index_list(self) ==
    /\ self \in DOMAIN Worker
    /\ resp' = [op |-> "pretty_index_list", self |-> self,
                result |-> pretty_index_list(self)]
    /\ UNCHANGED tables

\* ------------------------------------------------------------- UserImage
UserImage_create(id) ==
    /\ id \notin UserImage
    /\ UserImage' = UserImage \cup {id}
    /\ resp' = [op |-> "UserImage.create", id |-> id, error |-> ""]
    /\ UNCHANGED <<JobQueue, QueuedJob, Worker, LoadedIndex>>

UserImage_delete(id) ==
    /\ id \in UserImage
    /\ UserImage' = UserImage \ {id}
    /\ resp' = [op |-> "UserImage.delete"]
    /\ UNCHANGED <<JobQueue, QueuedJob, Worker, LoadedIndex>>

\* ----------------------------------------------------------------- views
\* UserImage.objects.all()
UserImage_objects_all == UserImage

\* render_to_response(template, context, ...): a context is the set of its
\* (key, value) pairs.
render_to_response(template, context) ==
    [template |-> template, context |-> context]

\* Mutant of home: the template is given the first image only.
home_first(req) ==
    LET all == UserImage_objects_all
        context == {<<"images", {i \in all : \A j \in all : i <= j}>>}
    IN render_to_response("home.html", context)

home(req) ==
    LET context == {<<"images", UserImage_objects_all>>}
    IN render_to_response("home.html", context)

\* Mutant of support: the context of home is passed on.
support_images(req) ==
    LET context == {<<"images", UserImage_objects_all>>}
    IN render_to_response("support.html", context)

support(req) ==
    LET context == {}
    IN render_to_response("support.html", context)

\* Mutant of home_request: the view removes the images it has shown.
home_request_consume(req) ==
    /\ resp' = [op |-> "home", response |-> home(req)]
    /\ UserImage' = {}
    /\ UNCHANGED <<JobQueue, QueuedJob, Worker, LoadedIndex>>

home_request(req) ==
    /\ resp' = [op |-> "home", response |-> home(req)]
    /\ UNCHANGED tables

support_request(req) ==
    /\ resp' = [op |-> "support", response |-> support(req)]
    /\ UNCHANGED tables

\* -------------------------------------------------------- specifications
QueuedJob_kwargs(Q, P) ==
    {[jobid |-> j] : j \in JobIds}
    \cup {[q |-> n, jobid |-> j] : n \in Q, j \in JobIds}
    \cup {[q |-> n, jobid |-> j, priority |-> p, stopwork |-> TRUE,
           enqueuetime |-> "2009-06-15"] : n \in Q, j \in JobIds, p \in P}

Worker_kwargs(H, A, J) ==
    {[hostname |-> h, ip |-> a] : h \in H, a \in A}
    \cup {[hostname |-> h, ip |-> a, job |-> j] :
            h \in H, a \in A, j \in {NULL} \cup J}

\* The assignments of one field of a worker.
Worker_changes(H, A, J) ==
    {[hostname |-> h] : h \in H}
    \cup {[ip |-> a] : a \in A}
    \cup {[job |-> j] : j \in {NULL} \cup J}

LoadedIndex_kwargs(X, P, N, W) ==
    {[indexid |-> x, healpix |-> p, healpix_nside |-> n] :
        x \in X, p \in P, n \in N}
    \cup {[indexid |-> x, healpix |-> p, healpix_nside |-> n, worker |-> w] :
            x \in X, p \in P, n \in N, w \in W}

\* The schema: creates and deletes of the four tables.
NextSchema ==
    \/ \E name \in QueueNames : JobQueue_create(name)
    \/ \E name \in QueueNames : JobQueue_delete(name)
    \/ \E id \in 1..MaxJobs, kw \in QueuedJob_kwargs(QueueNames, {5}) :
            QueuedJob_create(id, kw)
    \/ \E id \in 1..MaxJobs : QueuedJob_delete(id)
    \/ \E id \in 1..MaxWorkers,
          kw \in Worker_kwargs({"oven"}, {"10.0.0.1"}, 1..MaxJobs) :
            Worker_create(id, kw)
    \/ \E id \in 1..MaxWorkers,
          kw \in Worker_kwargs({"oven"}, {"10.0.0.1"}, 1..MaxJobs) :
            Worker_save(id, kw)
    \/ \E id \in 1..MaxWorkers : Worker_delete(id)
    \/ \E id \in 1..MaxIndexes,
          kw \in LoadedIndex_kwargs({1}, {-1}, {1}, 1..MaxWorkers) :
            LoadedIndex_create(id, kw)
    \/ \E id \in 1..MaxIndexes : LoadedIndex_delete(id)

SpecSchema == Init /\ [][NextSchema]_vars

\* Worker.pretty_index_list over the indexes of two workers.
NextPretty ==
    \/ \E id \in 1..MaxPrettyWorkers,
          kw \in Worker_kwargs({"oven"}, {"10.0.0.1"}, {}) :
            Worker_create(id, kw)
    \/ \E id \in 1..MaxPrettyWorkers : Worker_delete(id)
    \/ \E id \in 1..MaxPrettyIndexes, p \in IndexPairs :
          \E kw \in LoadedIndex_kwargs({p[1]}, {p[2]}, {1}, 1..MaxPrettyWorkers) :
            LoadedIndex_create(id, kw)
    \/ \E id \in 1..MaxPrettyIndexes : LoadedIndex_delete(id)
    \/ \E self \in 1..MaxPrettyWorkers : Worker_pretty_index_list(self)

SpecPretty == Init /\ [][NextPretty]_vars

\* Worker.pretty_index_list under changes of the fields it does not print.
NextFields ==
    \/ \E name \in {"astrometry"} : JobQueue_create(name)
    \/ \E id \in 1..MaxFieldJobs, kw \in QueuedJob_kwargs({"astrometry"}, {}) :
            QueuedJob_create(id, kw)
    \/ \E id \in 1..MaxFieldJobs : QueuedJob_delete(id)
    \/ \E id \in 1..MaxFieldWorkers,
          kw \in Worker_kwargs({"oven"}, {"10.0.0.1"}, 1..MaxFieldJobs) :
            Worker_create(id, kw)
    \/ \E id \in 1..MaxFieldWorkers,
          kw \in Worker_changes(Hostnames, Ips, 1..MaxFieldJobs) :
            Worker_save(id, kw)
    \/ \E id \in 1..MaxFieldIndexes,
          kw \in LoadedIndex_kwargs({2}, {-1, 5}, Nsides, 1..MaxFieldWorkers) :
            LoadedIndex_create(id, kw)
    \/ \E id \in 1..MaxFieldIndexes, nside \in Nsides :
            LoadedIndex_save(id, nside)
    \/ \E id \in 1..MaxFieldIndexes : LoadedIndex_delete(id)
    \/ \E self \in 1..MaxFieldWorkers : Worker_pretty_index_list(self)

SpecFields == Init /\ [][NextFields]_vars

\* The two views over a changing database.
NextViews ==
    \/ \E id \in 1..MaxImages : UserImage_create(id)
    \/ \E id \in 1..MaxImages : UserImage_delete(id)
    \/ \E name \in QueueNames : JobQueue_create(name)
    \/ \E name \in QueueNames : JobQueue_delete(name)
    \/ \E req \in Requests : home_request(req)
    \/ \E req \in Requests : support_request(req)

SpecViews == Init /\ [][NextViews]_vars

\* ---------------------------------------------------------------- claims
\* The (indexid, healpix) pairs of a worker's indexes, in row order.
pairs(self) ==
    CHOOSE list \in {[k \in 1..Len(all) |-> <<all[k].indexid, all[k].healpix>>] :
                        all \in {indexes_all(self)}} : TRUE

\* The rows of a worker, by id.
rows(self) == [i \in indexes({self}) |-> LoadedIndex[i]]

\* C1: pretty_index_list returns the pieces of the worker's indexes joined
\* with ", ": the piece of an index is its decimal indexid alone when
\* healpix <= -1, and indexid, '-' and the decimal healpix otherwise, also
\* for healpix = 0; indexes [(1, -1), (2, 5)] give "1, 2-5".
C1_PrettyFormat ==
    resp.op = "pretty_index_list" =>
        LET all == indexes_all(resp.self)
            expected(i) ==
                IF i.healpix <= -1 THEN FormatInt(i.indexid)
                ELSE FormatInt(i.indexid) \o <<"-">> \o FormatInt(i.healpix)
            out[k \in 0..Len(all)] ==
                IF k = 0 THEN <<>>
                ELSE IF k = 1 THEN expected(all[1])
                ELSE out[k - 1] \o <<",", " ">> \o expected(all[k])
        IN /\ resp.result = out[Len(all)]
           /\ pairs(resp.self) = <<<<1, -1>>, <<2, 5>>>>
                => resp.result = <<"1", ",", " ", "2", "-", "5">>
           /\ pairs(resp.self) = <<<<12, 0>>>>
                => resp.result = <<"1", "2", "-", "0">>
           /\ pairs(resp.self) = <<<<-3, -2>>, <<12, 0>>>>
                => resp.result = <<"-", "3", ",", " ", "1", "2", "-", "0">>

C1_Witness ==
    /\ resp.op = "pretty_index_list"
    /\ pairs(resp.self) = <<<<1, -1>>, <<2, 5>>, <<12, 0>>>>
    /\ resp.result = <<"1", ",", " ", "2", "-", "5", ",", " ",
                       "1", "2", "-", "0">>

\* C2: pretty_index_list returns the empty string for a worker with no
\* LoadedIndex rows, whatever indexes other workers have.
C2_PrettyEmpty ==
    (resp.op = "pretty_index_list" /\ indexes({resp.self}) = {})
        => resp.result = <<>>

C2_Witness ==
    /\ resp.op = "pretty_index_list"
    /\ indexes({resp.self}) = {}
    /\ resp.result = <<>>
    /\ \E w \in DOMAIN Worker : w # resp.self /\ Cardinality(indexes({w})) = 2

\* C8: the result for worker w has one piece per LoadedIndex row of w and
\* none for the rows of other workers: n >= 1 rows give n pieces and n - 1
\* separators, and after a step that adds or deletes indexes of other
\* workers only, the call gives what it gave before the step.
C8_PrettyOwnRows ==
    [][/\ resp'.op = "pretty_index_list" =>
            LET n == Cardinality(indexes({resp'.self}))
                r == resp'.result
                seps == {k \in 1..Len(r) : r[k] = ","}
                starts == {k \in 1..Len(r) :
                              /\ r[k] \notin {",", " "}
                              /\ k = 1 \/ r[k - 1] = " "}
            IN n >= 1 =>
                /\ Cardinality(starts) = n
                /\ Cardinality(seps) = n - 1
                /\ \A k \in seps : k < Len(r) /\ r[k + 1] = " "
       /\ resp.op = "pretty_index_list" =>
            \A w \in {resp.self} \cap DOMAIN Worker' :
                (LoadedIndex' # LoadedIndex /\ rows(w)' = rows(w))
                    => pretty_index_list(w)' = resp.result]_vars

C8_Witness ==
    /\ resp.op = "pretty_index_list"
    /\ Cardinality(indexes({resp.self})) = 2
    /\ Len(resp.result) > 0
    /\ \E w \in DOMAIN Worker : w # resp.self /\ indexes({w}) # {}

\* C9: pretty_index_list is a read-only query of the (indexid, healpix)
\* pairs of the worker's indexes: the call changes no row, and after a step
\* that leaves those pairs as they were (a change of healpix_nside, of the
\* worker's hostname, ip or job) the call gives what it gave before the
\* step.
C9_PrettyReadsPairsOnly ==
    [][/\ resp'.op = "pretty_index_list" => UNCHANGED tables
       /\ resp.op = "pretty_index_list" =>
            \A w \in {resp.self} \cap DOMAIN Worker' :
                pairs(w)' = pairs(w) => pretty_index_list(w)' = resp.result]_vars

C9_Witness ==
    /\ resp.op = "pretty_index_list"
    /\ Worker[resp.self].hostname = "neuron"
    /\ Worker[resp.self].ip = "10.0.0.2"
    /\ Worker[resp.self].job # NULL
    /\ \E i \in indexes({resp.self}) :
            LoadedIndex[i].healpix_nside = 2 /\ LoadedIndex[i].healpix = 5
    /\ resp.result = <<"2", "-", "5">>

\* C3: the home view renders home.html with a context whose images key is
\* bound to exactly the UserImage rows that exist at the time of the
\* request, the key being there also when there are no rows.
C3_HomeImages ==
    resp.op = "home" =>
        /\ resp.response.template = "home.html"
        /\ \E p \in resp.response.context : p[1] = "images"
        /\ \A p \in resp.response.context :
                p[1] = "images" => p[2] = UserImage

C3_Witness ==
    /\ resp.op = "home"
    /\ UserImage = {1, 3}
    /\ <<"images", {1, 3}>> \in resp.response.context

C4_JobQueueUnique ==
    /\ [](\A n \in BagToSet(JobQueue) : CopiesIn(n, JobQueue) = 1)
    /\ [][(resp'.op = "JobQueue.create" /\ BagIn(resp'.name, JobQueue))
            => (resp'.error = "IntegrityError" /\ JobQueue' = JobQueue)]_vars

C4_Witness ==
    /\ resp.op = "JobQueue.create"
    /\ resp.error = "IntegrityError"
    /\ BagToSet(JobQueue) = QueueNames

\* C5: no foreign key dangles: every QueuedJob.q is a JobQueue, every
\* LoadedIndex.worker is a Worker, and every Worker.job is null or a
\* QueuedJob.
C5_NoDanglingKeys ==
    /\ \A j \in DOMAIN QueuedJob : BagIn(QueuedJob[j].q, JobQueue)
    /\ \A i \in DOMAIN LoadedIndex :
            LoadedIndex[i].worker # NULL /\ LoadedIndex[i].worker \in DOMAIN Worker
    /\ \A w \in DOMAIN Worker :
            Worker[w].job = NULL \/ Worker[w].job \in DOMAIN QueuedJob

C5_Witness ==
    /\ resp.op = "JobQueue.delete"
    /\ BagToSet(JobQueue) = {"astrometry"}
    /\ DOMAIN QueuedJob = {1}
    /\ \E w \in DOMAIN Worker : Worker[w].job = 1 /\ indexes({w}) # {}

\* C10: a QueuedJob created with its queue and jobid only has priority 0,
\* stopwork False and enqueuetime 2000-01-01, and a Worker created without
\* a job has a null job, whatever rows were created before.
C10_Defaults ==
    /\ (resp.op = "QueuedJob.create" /\ resp.error = ""
            /\ resp.given = {"q", "jobid"})
        => /\ QueuedJob[resp.id].priority = 0
           /\ QueuedJob[resp.id].stopwork = FALSE
           /\ QueuedJob[resp.id].enqueuetime = "2000-01-01"
    /\ (resp.op = "Worker.create" /\ resp.error = ""
            /\ "job" \notin resp.given)
        => Worker[resp.id].job = NULL

C10_Witness ==
    /\ resp.op = "QueuedJob.create"
    /\ resp.error = ""
    /\ resp.given = {"q", "jobid"}
    /\ QueuedJob[resp.id].priority = 0
    /\ \E j \in DOMAIN QueuedJob : QueuedJob[j].priority = 5
    /\ \E w \in DOMAIN Worker : Worker[w].job = NULL

====
